---- MODULE Spec2Model ----
(***************************************************************************)
(* Master-agent eval harness: the pytest session of evals/ (conftest.py,   *)
(* test_http_events.py, test_a2a_eval.py) and the standalone MCP probe     *)
(* test_mcp.py, run against the master agent service.  The service is not  *)
(* part of these sources: it is either "conformant" (it behaves as the     *)
(* data model of the specification describes) or "opaque" (any response).  *)
(***************************************************************************)
EXTENDS Integers, Sequences, FiniteSets, TLC

VARIABLES
    program,      \* which entry point runs: "pytest" (evals/) or "probe" (test_mcp.py)
    svc,          \* behaviour of the service under test: "conformant" or "opaque"
    gate,         \* cached result of the session fixture check_agent_health
    probes,       \* number of GET /v0/agent/status probes issued by check_agent_health
    probed,       \* what the probe of check_agent_health did (NoProbe before it)
    skipMsg,      \* the message given to pytest.skip (<<>> when there is none)
    client,       \* the session fixture http_client: "none", "open", "closed"
    idx,          \* position of the current test case in Tests
    pc,           \* position inside the current test case
    trace,        \* blocking calls made by the current test case, in order
    slept,        \* seconds slept by the current test case
    resp,         \* response of the current test case's POST
    status,       \* status snapshot fetched by the current test case
    outcome,      \* verdict of the current test case
    netFailed,    \* the current test case had a network call raise
    tally,        \* the session report: verdict -> number of test cases
    nSubmitted,   \* event POSTs issued by the session so far
    queue,        \* service: events accepted and not yet processed
    qTotal,       \* service: queue.total, cumulative accepted submissions
    totalEvents,  \* service: worldState.totalEvents
    incidents,    \* service: open incidents
    nOther,       \* events submitted by other clients of the shared service
    probePc,      \* test_mcp.py: next step of the main sequence
    probeRaised,  \* test_mcp.py: an exception left call_mcp_tool / list_tools
    probeReturns, \* test_mcp.py: values returned by the calls made so far
    probeErrors   \* test_mcp.py: status codes printed as errors

vars == <<program, svc, gate, probes, probed, skipMsg, client, idx, pc, trace, slept,
          resp, status, outcome, netFailed, tally, nSubmitted, queue, qTotal,
          totalEvents, incidents, nOther, probePc, probeRaised, probeReturns,
          probeErrors>>

sessionVars == <<gate, probes, probed, skipMsg, client, idx, pc, trace, slept, resp,
                 status, outcome, netFailed, tally, nSubmitted>>
serviceVars == <<queue, qTotal, totalEvents, incidents>>
probeVars == <<probePc, probeRaised, probeReturns, probeErrors>>

-----------------------------------------------------------------------------
(* Bounds of the model *)

\* largest counter value an opaque service reports in a status snapshot
MaxCount == 2
\* events other clients submit to the shared service during the session
MaxOther == 2

-----------------------------------------------------------------------------
(* Program constants *)

API_URL == "http://localhost:8080"
MCP_URL == "http://localhost:8083"
PROCESS_WAIT_SECONDS == 15
HTTP_OK == 200
HTTP_ERROR_FLOOR == 400

\* status codes a response may carry
StatusCodes == {200, 201, 301, 400, 422, 500}

\* httpx.Response.is_success, as raise_for_status uses it
IsSuccess(code) == code >= 200 /\ code <= 299

-----------------------------------------------------------------------------
(* The test cases, in pytest's collection order *)

Tests == << "test_triage_basic", "test_multi_event",
            "test_push_critical_event", "test_push_event_updates_status",
            "test_push_critical_creates_incident", "test_queue_depth_decreases",
            "test_missing_required_fields", "test_empty_message" >>

NumTests == Len(Tests)

A2ATests == {"test_triage_basic", "test_multi_event"}
ConvergenceTests == {"test_push_event_updates_status",
                     "test_push_critical_creates_incident",
                     "test_queue_depth_decreases"}
ValidationTests == {"test_missing_required_fields", "test_empty_message"}

cur == IF idx <= NumTests THEN Tests[idx] ELSE "none"

\* the JSON body each test case posts to /v0/agent/events
Payload(t) ==
    CASE t = "test_push_critical_event" ->
           [source |-> TRUE, type |-> TRUE, severity |-> "critical", message |-> "text"]
      [] t = "test_push_event_updates_status" ->
           [source |-> TRUE, type |-> TRUE, severity |-> "warning", message |-> "text"]
      [] t = "test_push_critical_creates_incident" ->
           [source |-> TRUE, type |-> TRUE, severity |-> "critical", message |-> "text"]
      [] t = "test_queue_depth_decreases" ->
           [source |-> TRUE, type |-> TRUE, severity |-> "info", message |-> "text"]
      [] t = "test_missing_required_fields" ->
           [source |-> TRUE, type |-> FALSE, severity |-> "absent", message |-> "absent"]
      [] OTHER ->
           [source |-> TRUE, type |-> TRUE, severity |-> "absent", message |-> "empty"]

-----------------------------------------------------------------------------
(* Wire shapes *)

\* Submission Acknowledgement as the test cases read it: resp.status_code,
\* body["queued"] and "id" in body
Responses == [status : StatusCodes, queued : {"true", "false", "absent"}, id : BOOLEAN]
NoResp == [status |-> 0, queued |-> "absent", id |-> FALSE]

Counts == 0 .. MaxCount
IncidentLists == {[present |-> FALSE, len |-> 0]} \cup [present : {TRUE}, len : Counts]

\* Status Snapshot as the test cases read it
Snapshots == [running : BOOLEAN, totalEvents : Counts, activeIncidents : Counts,
              incidents : IncidentLists, depth : Counts, total : Counts]
NoStatus == [running |-> FALSE, totalEvents |-> 0, activeIncidents |-> 0,
             incidents |-> [present |-> FALSE, len |-> 0], depth |-> 0, total |-> 0,
             fetched |-> FALSE]

Fetched(s) == [running |-> s.running, totalEvents |-> s.totalEvents,
               activeIncidents |-> s.activeIncidents, incidents |-> s.incidents,
               depth |-> s.depth, total |-> s.total, fetched |-> TRUE]

\* status.get("incidents", []) followed by len(...)
IncidentsLen(s) == IF s.incidents.present THEN s.incidents.len ELSE 0

-----------------------------------------------------------------------------
(* Health gate: conftest.py check_agent_health *)

\* what httpx.get(...) of the probe can do: return a response or raise
ProbeOutcomes == [kind : {"response"}, code : StatusCodes]
                 \cup [kind : {"connect_error", "timeout", "read_error"}, code : {0}]

\* the exception leaving the try block: httpx.get raises, or raise_for_status
\* raises HTTPStatusError on a response that is not a success
NoProbe == [kind |-> "none", code |-> 0]

RaisedByProbe(o) ==
    CASE o.kind = "connect_error" -> "ConnectError"
      [] o.kind = "timeout" -> "TimeoutException"
      [] o.kind = "read_error" -> "ReadError"
      [] OTHER -> IF IsSuccess(o.code) THEN "none" ELSE "HTTPStatusError"

\* faulty variant: the except clause without httpx.TimeoutException
CaughtByGate_noTimeout(exc) == exc \in {"ConnectError", "HTTPStatusError"}

\* except (httpx.ConnectError, httpx.TimeoutException, httpx.HTTPStatusError)
CaughtByGate(exc) == exc \in {"ConnectError", "TimeoutException", "HTTPStatusError"}

\* str(exc): the failure text of the exception
ExcText(o) ==
    CASE o.kind = "connect_error" -> "All connection attempts failed"
      [] o.kind = "timeout" -> "timed out"
      [] o.kind = "read_error" -> "read error"
      [] o.code = 201 -> "status 201"
      [] o.code = 301 -> "Redirect response '301' for url"
      [] o.code = 400 -> "Client error '400' for url"
      [] o.code = 422 -> "Client error '422' for url"
      [] o.code = 500 -> "Server error '500' for url"
      [] OTHER -> "status 200"

\* f"Master agent not reachable at {API_URL}: {exc}"
SkipMessage(o) == <<"Master agent not reachable at ", API_URL, ": ", ExcText(o)>>

\* faulty variant: the fixture with function scope, set up again for every test case
FixtureCached_functionScope == FALSE

\* @pytest.fixture(scope="session", autouse=True): the first result, a raised
\* skip included, is kept for the session
FixtureCached == gate # "unset"

Verdicts == {"passed", "failed", "skipped", "error"}

-----------------------------------------------------------------------------
(* Assertions of the test cases: test_http_events.py *)

\* faulty variant: the acknowledgement check without the "id" assertion
CriticalEventAsserts_noId(r) == r.status = HTTP_OK /\ r.queued = "true"

\* test_push_critical_event: status_code == 200, body["queued"] is True, "id" in body
CriticalEventAsserts(r) == r.status = HTTP_OK /\ r.queued = "true" /\ r.id

\* test_push_event_updates_status, before the sleep
StatusUpdateAck(r) == r.status = HTTP_OK /\ r.queued = "true"

\* test_push_critical_creates_incident, before the sleep
CriticalIncidentAck(r) == r.status = HTTP_OK

\* faulty variant: the drain scenario asserting on its POST response
DrainAck_checksStatus(r) == r.status = HTTP_OK

\* test_queue_depth_decreases: the POST response is dropped, nothing is asserted
DrainAck(r) == TRUE

\* faulty variant: only server errors count as a rejection
ValidationAsserts_serverOnly(r) == r.status >= 500

\* TestEventValidation: resp.status_code >= 400
ValidationAsserts(r) == r.status >= HTTP_ERROR_FLOOR

\* test_push_event_updates_status, after the sleep
StatusUpdateAsserts(s) == s.running /\ s.totalEvents >= 1

\* faulty variant: the incident list is not looked at
CriticalIncidentAsserts_noList(s) == s.activeIncidents >= 1

\* test_push_critical_creates_incident, after the sleep
CriticalIncidentAsserts(s) == s.activeIncidents >= 1 /\ IncidentsLen(s) >= 1

\* faulty variant: a looser depth bound
DrainAsserts_depth2(s) == s.depth <= 2 /\ s.total >= 1

\* test_queue_depth_decreases, after the sleep
DrainAsserts(s) == s.depth <= 1 /\ s.total >= 1

\* the assertions a test case makes on its POST response
AckOk(t, r) ==
    CASE t = "test_push_critical_event" -> CriticalEventAsserts(r)
      [] t = "test_push_event_updates_status" -> StatusUpdateAck(r)
      [] t = "test_push_critical_creates_incident" -> CriticalIncidentAck(r)
      [] t = "test_queue_depth_decreases" -> DrainAck(r)
      [] OTHER -> ValidationAsserts(r)

\* the assertions a convergence scenario makes on its snapshot
SnapshotOk(t, s) ==
    CASE t = "test_push_event_updates_status" -> StatusUpdateAsserts(s)
      [] t = "test_push_critical_creates_incident" -> CriticalIncidentAsserts(s)
      [] OTHER -> DrainAsserts(s)

\* faulty variant: a failed call is issued again
OnNetworkError_retry(at) == at

\* no try/except around a call in any test case: the exception ends the test
OnNetworkError(at) == "reported"

\* where a test case goes once the assertions on its POST response passed
AfterAck(t) == IF t \in ConvergenceTests THEN "sleep" ELSE "reported"

-----------------------------------------------------------------------------
(* The master agent service, as the data model describes it *)

\* source, type and a non-empty message are mandatory
WellFormed(p) == p.source /\ p.type /\ p.message = "text"

\* the acknowledgement of an accepted event, and the rejection of a malformed one
Accepted == [status |-> 200, queued |-> "true", id |-> TRUE]
Rejected == [status |-> 400, queued |-> "absent", id |-> FALSE]

\* GET /v0/agent/status of the service's current state
ServiceSnapshot ==
    [running |-> TRUE, totalEvents |-> totalEvents, activeIncidents |-> incidents,
     incidents |-> [present |-> TRUE, len |-> incidents],
     depth |-> Len(queue), total |-> qTotal]

Enqueue(sev) ==
    /\ queue' = Append(queue, [sev |-> sev, due |-> FALSE])
    /\ qTotal' = qTotal + 1
    /\ UNCHANGED <<totalEvents, incidents>>

\* every event queued when a wait window opens is processed before it closes
MarkDue(q) == [i \in 1 .. Len(q) |-> [sev |-> q[i].sev, due |-> TRUE]]
NoneDue(q) == \A i \in 1 .. Len(q) : ~q[i].due

\* the worker takes the oldest event; a critical one opens an incident
service_process ==
    /\ program = "pytest" /\ svc = "conformant"
    /\ Len(queue) > 0
    /\ queue' = Tail(queue)
    /\ totalEvents' = totalEvents + 1
    /\ incidents' = IF Head(queue).sev = "critical" THEN incidents + 1 ELSE incidents
    /\ UNCHANGED <<qTotal, nOther, program, svc>>
    /\ UNCHANGED sessionVars /\ UNCHANGED probeVars

\* another client of the shared service submits a well-formed event
other_submit(sev) ==
    /\ program = "pytest" /\ svc = "conformant"
    /\ nOther < MaxOther
    /\ nOther' = nOther + 1
    /\ Enqueue(sev)
    /\ UNCHANGED <<program, svc>>
    /\ UNCHANGED sessionVars /\ UNCHANGED probeVars

-----------------------------------------------------------------------------
(* The pytest session *)

Bump(v) == [tally EXCEPT ![v] = @ + 1]

\* conftest.py check_agent_health, run by the first test case that sets it up
check_agent_health ==
    /\ program = "pytest" /\ pc = "setup" /\ idx <= NumTests
    /\ ~FixtureCached
    /\ \E o \in ProbeOutcomes :
         /\ probes' = probes + 1
         /\ probed' = o
         /\ IF RaisedByProbe(o) = "none"
              THEN gate' = "passed" /\ skipMsg' = <<>>
              ELSE IF CaughtByGate(RaisedByProbe(o))
                     THEN gate' = "skipped" /\ skipMsg' = SkipMessage(o)
                     ELSE gate' = "error" /\ skipMsg' = <<>>
    /\ UNCHANGED <<client, idx, pc, trace, slept, resp, status, outcome, netFailed,
                   tally, nSubmitted, nOther, program, svc>>
    /\ UNCHANGED serviceVars /\ UNCHANGED probeVars

\* setup of a test case with the cached result of the autouse fixture: a cached
\* skip or error is raised again, otherwise http_client is set up and the test runs
pytest_setup ==
    /\ program = "pytest" /\ pc = "setup" /\ idx <= NumTests
    /\ FixtureCached
    /\ CASE gate = "passed" ->
              /\ pc' = IF cur \in A2ATests THEN "eval" ELSE "post"
              /\ client' = IF cur \in A2ATests THEN client ELSE "open"
              /\ outcome' = outcome
         [] gate = "skipped" ->
              /\ pc' = "reported" /\ outcome' = "skipped" /\ client' = client
         [] OTHER ->
              /\ pc' = "reported" /\ outcome' = "error" /\ client' = client
    /\ UNCHANGED <<gate, probes, probed, skipMsg, idx, trace, slept, resp, status,
                   netFailed, tally, nSubmitted, nOther, program, svc>>
    /\ UNCHANGED serviceVars /\ UNCHANGED probeVars

\* test_a2a_eval.py: AgentEvaluator.evaluate decides the verdict
evaluate ==
    /\ program = "pytest" /\ pc = "eval"
    /\ \E v \in {"passed", "failed"} : outcome' = v
    /\ pc' = "reported"
    /\ UNCHANGED <<gate, probes, probed, skipMsg, client, idx, trace, slept, resp,
                   status, netFailed, tally, nSubmitted, nOther, program, svc>>
    /\ UNCHANGED serviceVars /\ UNCHANGED probeVars

\* http_client.post("/v0/agent/events", json=...) raises: nothing catches it
http_post_raises ==
    /\ program = "pytest" /\ pc = "post" /\ svc = "opaque"
    /\ trace' = Append(trace, "POST")
    /\ nSubmitted' = nSubmitted + 1
    /\ netFailed' = TRUE
    /\ pc' = OnNetworkError("post")
    /\ outcome' = IF pc' = "reported" THEN "failed" ELSE outcome
    /\ UNCHANGED <<gate, probes, probed, skipMsg, client, idx, slept, resp, status,
                   tally, nOther, program, svc>>
    /\ UNCHANGED serviceVars /\ UNCHANGED probeVars

\* http_client.post("/v0/agent/events", json=...) returns, and the test case
\* makes its assertions on the response
http_post ==
    /\ program = "pytest" /\ pc = "post"
    /\ trace' = Append(trace, "POST")
    /\ nSubmitted' = nSubmitted + 1
    /\ \E r \in Responses :
         /\ IF svc = "conformant"
              THEN /\ r = IF WellFormed(Payload(cur)) THEN Accepted ELSE Rejected
                   /\ IF WellFormed(Payload(cur))
                        THEN Enqueue(Payload(cur).severity)
                        ELSE UNCHANGED serviceVars
              ELSE UNCHANGED serviceVars
         /\ resp' = r
         /\ IF AckOk(cur, r)
              THEN /\ pc' = AfterAck(cur)
                   /\ outcome' = IF AfterAck(cur) = "reported" THEN "passed" ELSE outcome
              ELSE /\ pc' = "reported"
                   /\ outcome' = "failed"
    /\ UNCHANGED <<gate, probes, probed, skipMsg, client, idx, slept, status,
                   netFailed, tally, nOther, program, svc>>
    /\ UNCHANGED probeVars

\* time.sleep(PROCESS_WAIT_SECONDS) begins
sleep_start ==
    /\ program = "pytest" /\ pc = "sleep"
    /\ pc' = "sleeping"
    /\ trace' = Append(trace, "SLEEP")
    /\ slept' = slept + PROCESS_WAIT_SECONDS
    /\ queue' = IF svc = "conformant" THEN MarkDue(queue) ELSE queue
    /\ UNCHANGED <<gate, probes, probed, skipMsg, client, idx, resp, status, outcome,
                   netFailed, tally, nSubmitted, qTotal, totalEvents, incidents,
                   nOther, program, svc>>
    /\ UNCHANGED probeVars

\* time.sleep(PROCESS_WAIT_SECONDS) returns
sleep_end ==
    /\ program = "pytest" /\ pc = "sleeping"
    /\ svc = "conformant" => NoneDue(queue)
    /\ pc' = "get"
    /\ UNCHANGED <<gate, probes, probed, skipMsg, client, idx, trace, slept, resp,
                   status, outcome, netFailed, tally, nSubmitted, nOther, program, svc>>
    /\ UNCHANGED serviceVars /\ UNCHANGED probeVars

\* http_client.get("/v0/agent/status") raises: nothing catches it
http_get_raises ==
    /\ program = "pytest" /\ pc = "get" /\ svc = "opaque"
    /\ trace' = Append(trace, "GET")
    /\ netFailed' = TRUE
    /\ pc' = OnNetworkError("get")
    /\ outcome' = IF pc' = "reported" THEN "failed" ELSE outcome
    /\ UNCHANGED <<gate, probes, probed, skipMsg, client, idx, slept, resp, status,
                   tally, nSubmitted, nOther, program, svc>>
    /\ UNCHANGED serviceVars /\ UNCHANGED probeVars

\* http_client.get("/v0/agent/status").json() returns, and the scenario makes its
\* assertions on the snapshot
http_get ==
    /\ program = "pytest" /\ pc = "get"
    /\ trace' = Append(trace, "GET")
    /\ \E s \in IF svc = "conformant" THEN {ServiceSnapshot} ELSE Snapshots :
         /\ status' = Fetched(s)
         /\ outcome' = IF SnapshotOk(cur, s) THEN "passed" ELSE "failed"
    /\ pc' = "reported"
    /\ UNCHANGED <<gate, probes, probed, skipMsg, client, idx, slept, resp,
                   netFailed, tally, nSubmitted, nOther, program, svc>>
    /\ UNCHANGED serviceVars /\ UNCHANGED probeVars

\* pytest reports the verdict of the test case and goes to the next one
advance ==
    /\ program = "pytest" /\ pc = "reported"
    /\ tally' = Bump(outcome)
    /\ idx' = idx + 1
    /\ pc' = "setup"
    /\ trace' = <<>> /\ slept' = 0
    /\ resp' = NoResp /\ status' = NoStatus
    /\ outcome' = "none" /\ netFailed' = FALSE
    /\ UNCHANGED <<gate, probes, probed, skipMsg, client, nSubmitted, nOther,
                   program, svc>>
    /\ UNCHANGED serviceVars /\ UNCHANGED probeVars

\* the session ends: the session fixtures are torn down, http_client is closed
session_finish ==
    /\ program = "pytest" /\ pc = "setup" /\ idx = NumTests + 1
    /\ pc' = "finished"
    /\ client' = IF client = "open" THEN "closed" ELSE client
    /\ UNCHANGED <<gate, probes, probed, skipMsg, idx, trace, slept, resp, status,
                   outcome, netFailed, tally, nSubmitted, nOther, program, svc>>
    /\ UNCHANGED serviceVars /\ UNCHANGED probeVars

-----------------------------------------------------------------------------
(* The protocol probe: test_mcp.py *)

\* the main sequence of the script
MainSteps == << "list_tools", "get_master_agent_status", "emit_event", "sleep",
                "get_master_agent_status", "get_recent_events" >>

\* what requests.post(f"{MCP_URL}/message", ...) can do: return a response, whose
\* body is JSON or not, or raise
McpOutcomes == [kind : {"response"}, code : StatusCodes, json : BOOLEAN]
               \cup [kind : {"connect_error", "timeout"}, code : {0}, json : {FALSE}]

\* an exception leaves the function: requests.post raised, or response.json()
\* raised on the body of a 200 response
McpRaises(o) == o.kind # "response" \/ (o.code = HTTP_OK /\ ~o.json)

\* the value returned: the parsed result on status 200, None otherwise
McpReturn(o) == IF o.code = HTTP_OK THEN "result" ELSE "null"

McpCall ==
    \E o \in McpOutcomes :
       IF McpRaises(o)
         THEN /\ probeRaised' = TRUE
              /\ UNCHANGED <<probePc, probeReturns, probeErrors>>
         ELSE /\ probeReturns' = Append(probeReturns, McpReturn(o))
              /\ probeErrors' = IF o.code = HTTP_OK THEN probeErrors
                                ELSE Append(probeErrors, o.code)
              /\ probePc' = probePc + 1
              /\ probeRaised' = probeRaised

list_tools ==
    /\ program = "probe" /\ ~probeRaised
    /\ probePc <= Len(MainSteps) /\ MainSteps[probePc] = "list_tools"
    /\ McpCall
    /\ UNCHANGED <<program, svc, nOther>>
    /\ UNCHANGED sessionVars /\ UNCHANGED serviceVars

call_mcp_tool ==
    /\ program = "probe" /\ ~probeRaised
    /\ probePc <= Len(MainSteps) /\ MainSteps[probePc] \notin {"list_tools", "sleep"}
    /\ McpCall
    /\ UNCHANGED <<program, svc, nOther>>
    /\ UNCHANGED sessionVars /\ UNCHANGED serviceVars

\* time.sleep(3) of the main sequence
probe_sleep ==
    /\ program = "probe" /\ ~probeRaised
    /\ probePc <= Len(MainSteps) /\ MainSteps[probePc] = "sleep"
    /\ probePc' = probePc + 1
    /\ UNCHANGED <<probeRaised, probeReturns, probeErrors, program, svc, nOther>>
    /\ UNCHANGED sessionVars /\ UNCHANGED serviceVars

-----------------------------------------------------------------------------
(* Specification *)

Init ==
    /\ program \in {"pytest", "probe"}
    /\ svc \in {"conformant", "opaque"}
    /\ program = "probe" => svc = "opaque"
    /\ gate = "unset" /\ probes = 0 /\ probed = NoProbe /\ skipMsg = <<>>
    /\ client = "none"
    /\ idx = 1 /\ pc = "setup"
    /\ trace = <<>> /\ slept = 0
    /\ resp = NoResp /\ status = NoStatus
    /\ outcome = "none" /\ netFailed = FALSE
    /\ tally = [v \in Verdicts |-> 0]
    /\ nSubmitted = 0
    /\ queue = <<>> /\ qTotal = 0 /\ totalEvents = 0 /\ incidents = 0
    /\ nOther = 0
    /\ probePc = 1 /\ probeRaised = FALSE
    /\ probeReturns = <<>> /\ probeErrors = <<>>

Next ==
    \/ check_agent_health
    \/ pytest_setup
    \/ evaluate
    \/ http_post_raises
    \/ http_post
    \/ sleep_start
    \/ sleep_end
    \/ http_get_raises
    \/ http_get
    \/ advance
    \/ session_finish
    \/ service_process
    \/ \E sev \in {"critical", "info"} : other_submit(sev)
    \/ list_tools
    \/ call_mcp_tool
    \/ probe_sleep

Spec == Init /\ [][Next]_vars

-----------------------------------------------------------------------------
(* Properties *)

FullTrace == << "POST", "SLEEP", "GET" >>
IsPrefix(a, b) == Len(a) <= Len(b) /\ \A i \in 1 .. Len(a) : a[i] = b[i]
Contains(msg, part) == \E i \in 1 .. Len(msg) : msg[i] = part
Reported(t) == program = "pytest" /\ gate = "passed" /\ pc = "reported" /\ cur = t

\* the probe outcomes the health gate turns into a skip
Unreachable(o) ==
    \/ o.kind \in {"connect_error", "timeout"}
    \/ o.kind = "response" /\ ~IsSuccess(o.code)

\* C1: when the probe of the session ends in a connection error, a timeout or a
\* non-success status, every test case reported so far is reported skipped, none
\* passed, failed or errored, the skip message holds the base URL and the failure
\* text, and no scenario has sent a request or opened the client.
HealthGateSkip ==
    Unreachable(probed) =>
        /\ gate = "skipped"
        /\ tally["skipped"] = idx - 1
        /\ tally["failed"] = 0 /\ tally["error"] = 0 /\ tally["passed"] = 0
        /\ outcome \in {"none", "skipped"}
        /\ Contains(skipMsg, API_URL) /\ Contains(skipMsg, ExcText(probed))
        /\ nSubmitted = 0 /\ trace = <<>> /\ client = "none"

HealthGateSkipWitness ==
    /\ probed.kind = "timeout"
    /\ pc = "finished"
    /\ tally["skipped"] = NumTests

\* C2: against a service that accepts every well-formed event and processes every
\* queued event within the wait window, every convergence scenario passes, whatever
\* other clients submit before, during or after its wait window.
ToleratesInterference ==
    \A t \in ConvergenceTests :
        (Reported(t) /\ svc = "conformant") => outcome = "passed"

\* C3: a convergence scenario makes its calls in the order POST, one sleep of
\* PROCESS_WAIT_SECONDS, one GET, and asserts on the snapshot of that GET; no call is
\* made twice, and a call that raises ends the scenario as one failed test case.
ConvergenceStepOrder ==
    (program = "pytest" /\ cur \in ConvergenceTests) =>
        /\ IsPrefix(trace, FullTrace)
        /\ slept = IF Len(trace) >= 2 THEN PROCESS_WAIT_SECONDS ELSE 0
        /\ pc = "sleep" => trace = <<"POST">>
        /\ pc \in {"sleeping", "get"} => trace = <<"POST", "SLEEP">>
        /\ status.fetched => trace = FullTrace /\ pc = "reported"
        /\ outcome = "passed" => status.fetched /\ ~netFailed
        /\ netFailed => /\ pc = "reported" /\ outcome = "failed"
                        /\ trace \in {<<"POST">>, FullTrace}
                        /\ ~status.fetched
        /\ tally["passed"] + tally["failed"] + tally["skipped"] + tally["error"] = idx - 1

ConvergenceStepOrderWitness ==
    /\ cur = "test_push_critical_creates_incident"
    /\ netFailed /\ trace = FullTrace
    /\ outcome = "failed" /\ tally["failed"] = 0

\* C4: the critical-incident scenario passes exactly when its POST returned 200 and
\* the snapshot has activeIncidents >= 1 and an incidents list of length >= 1; it
\* fails on activeIncidents = 0 and on a snapshot without incidents entry; and
\* against a conformant service the snapshot meets both lower bounds, whatever
\* else was submitted.
CriticalIncidentLowerBound ==
    Reported("test_push_critical_creates_incident") =>
        /\ outcome = "passed" <=>
              /\ ~netFailed /\ resp.status = 200
              /\ status.fetched
              /\ status.activeIncidents >= 1
              /\ status.incidents.present /\ status.incidents.len >= 1
        /\ (status.fetched /\ (status.activeIncidents = 0 \/ ~status.incidents.present))
              => outcome = "failed"
        /\ svc = "conformant" =>
              /\ status.fetched /\ outcome = "passed"
              /\ status.activeIncidents >= 1 /\ status.incidents.len >= 1

CriticalIncidentLowerBoundWitness ==
    /\ Reported("test_push_critical_creates_incident")
    /\ outcome = "passed"
    /\ status.activeIncidents = 2 /\ status.incidents.len = 2

\* C5 as stated: the drain scenario passes only if queue.total is at least the
\* number of events submitted so far and queue.depth is at most 1.
DrainChecksSubmittedCount ==
    (Reported("test_queue_depth_decreases") /\ outcome = "passed") =>
        status.total >= nSubmitted /\ status.depth <= 1

\* C5 amended: the drain scenario passes exactly when the snapshot was fetched and
\* has queue.total >= 1 and queue.depth <= 1.
DrainChecksConstantBounds ==
    Reported("test_queue_depth_decreases") =>
        (outcome = "passed" <=>
            status.fetched /\ status.total >= 1 /\ status.depth <= 1)

DrainChecksConstantBoundsWitness ==
    /\ Reported("test_queue_depth_decreases")
    /\ outcome = "passed"
    /\ status.total = 1 /\ status.depth = 1
    /\ nSubmitted > status.total

\* C6 as stated: the submission scenario passes whenever the POST response has a
\* success status, queued true and an id.
AckContractAnySuccess ==
    ( /\ Reported("test_push_critical_event") /\ ~netFailed
      /\ IsSuccess(resp.status) /\ resp.queued = "true" /\ resp.id )
        => outcome = "passed"

\* C6 amended: the submission scenario passes exactly when the POST response has
\* status 200, queued true and an id, and it decides on the POST response: it has
\* made one POST, no sleep and no status fetch.
AckContractExact200 ==
    Reported("test_push_critical_event") =>
        /\ outcome = "passed" <=>
              ~netFailed /\ resp.status = 200 /\ resp.queued = "true" /\ resp.id
        /\ trace = <<"POST">> /\ slept = 0 /\ ~status.fetched

AckContractExact200Witness ==
    /\ Reported("test_push_critical_event")
    /\ outcome = "passed"
    /\ resp.status = 200 /\ resp.id

\* C7: a validation scenario posts a payload without a mandatory field or with an
\* empty message, and passes exactly when the response status is 400 or more; it
\* fails on a success status, and it decides on the POST response: one POST, no
\* sleep, no status fetch.
ValidationRejection ==
    \A t \in ValidationTests :
        Reported(t) =>
            /\ ~WellFormed(Payload(t))
            /\ outcome = "passed" <=> ~netFailed /\ resp.status >= 400
            /\ (~netFailed /\ IsSuccess(resp.status)) => outcome = "failed"
            /\ trace = <<"POST">> /\ slept = 0 /\ ~status.fetched

ValidationRejectionWitness ==
    /\ Reported("test_empty_message")
    /\ outcome = "passed"
    /\ resp.status = 422

\* C8: no call of the probe raises, so its main sequence is never cut short.
ProbeNeverRaises == ~probeRaised

\* C9: the status probe of the health gate is issued at most once, it has been
\* issued before any test case is past its setup and before any scenario request,
\* and every verdict reported in the session follows the one cached outcome.
HealthGateOnce ==
    program = "pytest" =>
        /\ probes <= 1
        /\ probes = 1 <=> gate # "unset"
        /\ (idx > 1 \/ pc # "setup" \/ nSubmitted > 0 \/ trace # <<>>) => probes = 1
        /\ gate = "skipped" => tally["skipped"] = idx - 1
        /\ gate = "error" => tally["error"] = idx - 1
        /\ gate = "passed" => tally["skipped"] = 0 /\ tally["error"] = 0

HealthGateOnceWitness ==
    /\ pc = "finished" /\ gate = "passed"
    /\ probes = 1 /\ nSubmitted = 6

\* C10 as stated: the verdict of a convergence scenario is decided by the snapshot
\* alone, against the thresholds totalEvents >= 1, activeIncidents >= 1 with a
\* non-empty incident list, and queue.total >= 1 with queue.depth <= 1.
VerdictFromSnapshotAlone ==
    \A t \in ConvergenceTests :
        (Reported(t) /\ ~netFailed) =>
            /\ status.fetched
            /\ outcome = "passed" <=>
                  CASE t = "test_push_event_updates_status" -> status.totalEvents >= 1
                    [] t = "test_push_critical_creates_incident" ->
                         status.activeIncidents >= 1 /\ IncidentsLen(status) >= 1
                    [] OTHER -> status.total >= 1 /\ status.depth <= 1

\* C10 amended: once the scenario's own checks of its POST response have passed
\* (200 and queued true; 200; none for the drain scenario), the verdict is decided
\* by the snapshot alone, against running with totalEvents >= 1, activeIncidents >= 1
\* with a non-empty incident list, and queue.total >= 1 with queue.depth <= 1; the
\* drain scenario passes whatever its POST response was.
VerdictFromAckAndSnapshot ==
    \A t \in ConvergenceTests :
        (Reported(t) /\ ~netFailed) =>
            /\ status.fetched <=>
                  CASE t = "test_push_event_updates_status" ->
                         resp.status = 200 /\ resp.queued = "true"
                    [] t = "test_push_critical_creates_incident" -> resp.status = 200
                    [] OTHER -> TRUE
            /\ outcome = "passed" <=>
                  /\ status.fetched
                  /\ CASE t = "test_push_event_updates_status" ->
                            status.running /\ status.totalEvents >= 1
                       [] t = "test_push_critical_creates_incident" ->
                            status.activeIncidents >= 1 /\ IncidentsLen(status) >= 1
                       [] OTHER -> status.total >= 1 /\ status.depth <= 1

VerdictFromAckAndSnapshotWitness ==
    /\ Reported("test_queue_depth_decreases")
    /\ outcome = "passed"
    /\ resp.status = 400

====
